---- MODULE Spec2Model ----
(***************************************************************************)
(* django-resend: webhook receipt (views.py), the event table (models.py)  *)
(* and the processing engine (utils.py) as a state machine.                *)
(*                                                                         *)
(* The table is a sequence of rows in insertion order (pk = index, which   *)
(* is also the created_at order).  Every database statement is one step;   *)
(* a model instance held by a worker is a private copy of the row that is  *)
(* written back field by field, as save(update_fields=...) does.           *)
(***************************************************************************)
EXTENDS Integers, Sequences, FiniteSets, TLC

\* ---------------------------------------------------------------- bounds
MaxEvents == 2
NumRequests == 3
MaxEngineRequests == 2
MaxEngineCalls == 2
MaxStaleRequests == 1
MaxPayloadRequests == 2
NumWorkers == 2
MaxCalls == 4
MaxSeqCalls == 3
MaxLimit == 1
MaxRetriesArg == 2
NumListeners == 2

EventIds == 1..MaxEvents
Requests == 1..NumRequests
Workers == 1..NumWorkers

\* data.get('type', ''): the type is the empty string when the body has none
EventTypes == {"", "email.sent"}

\* ---------------------------------------------------------------- models.py
STATUS_PENDING == "pending"
STATUS_PROCESSING == "processing"
STATUS_PROCESSED == "processed"
STATUS_FAILED == "failed"

\* processed_at is NULL or the time of mark_processed; NOW is timezone.now()
\* at the statement that reads it, PARSED a time taken from the payload
NULL == "null"
NOW == "now"
PARSED == "parsed"

VARIABLES
    rows,       \* the ResendWebhookEvent table
    req,        \* the webhook requests (resend_webhook_view invocations)
    recvFired,  \* per event_id, how often webhook_event_received was sent
    wk,         \* the engine invocations (process_event / batches)
    calls,      \* engine calls started so far
    asked,      \* the max_retries values retry_failed_events was called with
    scope       \* how the host schedules the calls of this behaviour

vars == <<rows, req, recvFired, wk, calls, asked, scope>>

\* the request body: the bytes are not UTF-8 (json.loads raises
\* UnicodeDecodeError), are not JSON (JSONDecodeError), are JSON but not an
\* object (a list, a number, a string, null), or are a JSON object
Bodies == {"undecodable", "malformed", "non_object", "object"}

\* the value of created_at / timestamp in the body: none (or a falsy one),
\* ISO-8601 text, well-formed ISO text naming an impossible date, a JSON
\* number, numeric text, numeric text beyond the range of time_t ("1e30",
\* "inf"), other text
TsKinds == {"absent", "iso", "bad_iso", "number", "epoch_text", "huge_text", "junk"}

\* the 'data' object of the body: empty, or carrying to = [address] and email_id
DataKinds == {"empty", "email"}

\* what the sender posts: every kind of body in the behaviours that look at
\* one request after the other, plain objects where calls interleave
BodiesSent == IF scope = "payload" THEN Bodies ELSE {"malformed", "object"}
TypesSent == IF scope = "stale" THEN {"email.sent"} ELSE EventTypes
TsSent == IF scope = "payload" THEN TsKinds ELSE {"absent"}
DataSent == IF scope = "payload" THEN DataKinds ELSE {"empty"}

\* django.utils.dateparse.parse_datetime: a datetime, None when the text
\* does not look like one, ValueError for an impossible date, TypeError for
\* a value that is not text
parse_datetime(ts) ==
    CASE ts = "iso" -> PARSED
      [] ts = "bad_iso" -> "ValueError"
      [] ts = "number" -> "TypeError"
      [] OTHER -> "None"

\* datetime.fromtimestamp(float(timestamp_str), tz=utc)
fromtimestamp(ts) ==
    CASE ts = "epoch_text" -> PARSED
      [] ts = "huge_text" -> "OverflowError"
      [] OTHER -> "ValueError"

\* the timestamp the view stores; only ValueError and TypeError are caught
\* next to the parse, any other error leaves through the outer try
Timestamp(ts) ==
    IF ts = "absent" THEN NOW
    ELSE LET t == IF parse_datetime(ts) = "None" THEN fromtimestamp(ts)
                  ELSE parse_datetime(ts)
         IN  IF t \in {"ValueError", "TypeError"} THEN NOW ELSE t

\* email: to / email / recipient, the first element of a list
Email(data) == IF data = "email" THEN "a@example.com" ELSE ""

\* message_id: email_id / message_id / id of the data object
MessageId(data) == IF data = "email" THEN "m1" ELSE ""

\* a row as objects.get_or_create(defaults=...) inserts it from the parsed
\* body p
NewRow(p) ==
    [event_id |-> p.id, event_type |-> p.type, timestamp |-> Timestamp(p.ts),
     email |-> Email(p.data), message_id |-> MessageId(p.data), payload |-> p,
     status |-> STATUS_PENDING, retry_count |-> 0,
     error_message |-> "", processed_at |-> NULL]

\* the model instance a query hands out: the row's fields at that moment
\* (the fields the engine reads or writes)
Instance(pk) ==
    [pk |-> pk, event_id |-> rows[pk].event_id, event_type |-> rows[pk].event_type,
     status |-> rows[pk].status, retry_count |-> rows[pk].retry_count,
     error_message |-> rows[pk].error_message, processed_at |-> rows[pk].processed_at]

NoEvent ==
    [pk |-> 0, event_id |-> 0, event_type |-> "", status |-> "", retry_count |-> 0,
     error_message |-> "", processed_at |-> NULL]

PKs == 1..Len(rows)

\* the unique=True constraint on event_id: does a row with this id exist
Exists(event_id) == \E pk \in PKs : rows[pk].event_id = event_id

\* mark_processing: in-memory change, then save(update_fields=['status'])
mark_processing(ev) == [ev EXCEPT !.status = STATUS_PROCESSING]

SaveProcessing(ev) ==
    [rows EXCEPT ![ev.pk].status = ev.status]

\* mark_processed: status and processed_at, then save of those two fields
mark_processed(ev) ==
    [ev EXCEPT !.status = STATUS_PROCESSED, !.processed_at = NOW]

\* save() without update_fields: every column the instance carries is
\* written back
SaveProcessedAllFields(ev) ==
    [rows EXCEPT ![ev.pk].status = ev.status, ![ev.pk].processed_at = ev.processed_at,
                 ![ev.pk].error_message = ev.error_message,
                 ![ev.pk].retry_count = ev.retry_count]

\* a save that also empties the stored payload of a handled event
SaveProcessedClearsPayload(ev) ==
    [rows EXCEPT ![ev.pk].status = ev.status, ![ev.pk].processed_at = ev.processed_at,
                 ![ev.pk].payload = [id |-> 0, type |-> "", ts |-> "absent",
                                     data |-> "empty"]]

SaveProcessed(ev) ==
    [rows EXCEPT ![ev.pk].status = ev.status, ![ev.pk].processed_at = ev.processed_at]

\* mark_failed without its first assignment: the status is left as it is
mark_failed_keeps_status(ev, error_message) ==
    [ev EXCEPT !.error_message = error_message, !.retry_count = @ + 1]

\* mark_failed: status, error_message, retry_count += 1 on the instance
mark_failed(ev, error_message) ==
    [ev EXCEPT !.status = STATUS_FAILED, !.error_message = error_message,
               !.retry_count = @ + 1]

SaveFailed(ev) ==
    [rows EXCEPT ![ev.pk].status = ev.status,
                 ![ev.pk].error_message = ev.error_message,
                 ![ev.pk].retry_count = ev.retry_count]

\* ---------------------------------------------------------------- signals.py
\* Signal.send calls the listeners in order and lets the first exception
\* out: a firing either completes or raises.
SendOutcomes == {"ok", "raise"}

\* the listeners connected to a signal, in registration order; the
\* behaviours that interleave engine calls run with a single listener
Listeners == IF scope \in {"engine", "stale"} THEN {1} ELSE 1..NumListeners

\* the first listener whose call raises, 0 when the firing completes
FirstRaising(out) == IF out = "ok" THEN {0} ELSE Listeners

\* send() is one loop over the listeners with no try around the call: the
\* listeners after the raising one are not called
Invoked(k) == IF k = 0 THEN Listeners ELSE 1..k

\* str(e) of an exception raised by a handler; the description may be empty
HandlerErrors == {"", "handler error"}
ListenerError == "listener error"

\* ---------------------------------------------------------------- views.py
IdleRequest ==
    [pc |-> "idle", body |-> "none", id |-> 0, type |-> "", ts |-> "absent",
     data |-> "empty", resp |-> "none", created |-> FALSE, seen |-> "",
     notified |-> {}]

\* the parsed body a request carries to get_or_create
Payload(rec) == [id |-> rec.id, type |-> rec.type, ts |-> rec.ts, data |-> rec.data]

RowOf(event_id) == CHOOSE pk \in PKs : rows[pk].event_id = event_id

\* update_or_create in the place of get_or_create: the defaults are written
\* over the stored row
FoundOverwritten(pk, p) == NewRow(p)

\* get_or_create on a stored event_id hands the row back as it is stored:
\* the defaults are used by the INSERT only
Found(pk, p) == rows[pk]

\* the view's answer to a stored event_id
Duplicate(rec) ==
    [rec EXCEPT !.pc = "done", !.resp = "200 duplicate",
                !.seen = rows[RowOf(rec.id)].status]

RequestActive(r) == req[r].pc \in {"insert", "send"}
WorkerActive(w) == wk[w].pc \notin {"idle", "returned", "raised"}

ActiveRequests == Cardinality({r \in Requests : RequestActive(r)})
ActiveWorkers == Cardinality({w \in Workers : WorkerActive(w)})
Started == Cardinality({r \in Requests : req[r].pc # "idle"})

\* Scheduling.  "receiver": requests interleave statement by statement.
\* "payload": one request after the other, with every kind of body.
\* "sequential": one call at a time, each run to its end.  "engine" and
\* "stale": engine invocations interleave step by step and a request runs
\* between two engine steps; "stale" keeps to one stored event and allows
\* more calls, so that an instance can be held across a failure, a retry
\* and a second failure.
Scopes == {"receiver", "payload", "sequential", "engine", "stale"}

MayReceive ==
    CASE scope = "receiver" -> TRUE
      [] scope = "payload" -> ActiveRequests = 0 /\ Started < MaxPayloadRequests
      [] scope = "sequential" ->
            ActiveRequests + ActiveWorkers = 0 /\ Started < MaxEngineRequests
      [] scope = "engine" -> ActiveRequests = 0 /\ Started < MaxEngineRequests
      [] scope = "stale" -> ActiveRequests = 0 /\ Started < MaxStaleRequests

MayCall ==
    CASE scope \in {"receiver", "payload"} -> FALSE
      [] scope = "sequential" ->
            ActiveRequests + ActiveWorkers = 0 /\ calls < MaxSeqCalls
      [] scope = "engine" -> ActiveRequests = 0 /\ calls < MaxEngineCalls
      [] scope = "stale" -> ActiveRequests = 0 /\ calls < MaxCalls

MayStep == ActiveRequests = 0

\* json.loads, the id check, the timestamp and the SELECT of get_or_create
RecvStart(r) ==
    /\ req[r].pc = "idle"
    /\ MayReceive
    /\ r > 1 => req[r - 1].pc # "idle"
    /\ \E body \in BodiesSent, id \in 0..MaxEvents, type \in TypesSent,
          ts \in TsSent, data \in DataSent :
          LET bad == [IdleRequest EXCEPT !.pc = "done", !.body = body]
              rec == [bad EXCEPT !.id = id, !.type = type, !.ts = ts, !.data = data]
          IN  IF body = "malformed"
              THEN /\ req' = [req EXCEPT ![r] = [bad EXCEPT !.resp = "400 invalid json"]]
                   /\ UNCHANGED rows
              ELSE IF body # "object"
              THEN /\ req' = [req EXCEPT ![r] = [bad EXCEPT !.resp = "500"]]
                   /\ UNCHANGED rows
              ELSE IF id = 0
              THEN /\ req' = [req EXCEPT ![r] = [rec EXCEPT !.resp = "400 missing id"]]
                   /\ UNCHANGED rows
              ELSE IF Timestamp(ts) \notin {NOW, PARSED}
              THEN /\ req' = [req EXCEPT ![r] = [rec EXCEPT !.resp = "500"]]
                   /\ UNCHANGED rows
              ELSE IF Exists(id)
              THEN /\ req' = [req EXCEPT ![r] = Duplicate(rec)]
                   /\ rows' = [rows EXCEPT ![RowOf(id)] = Found(RowOf(id), Payload(rec))]
              ELSE /\ req' = [req EXCEPT ![r] = [rec EXCEPT !.pc = "insert"]]
                   /\ UNCHANGED rows
    /\ UNCHANGED <<scope, asked, recvFired, wk, calls>>

\* the INSERT of get_or_create under the unique constraint
UniqueInsert(event_id) == ~Exists(event_id)

\* the INSERT of get_or_create; an IntegrityError makes it fetch the row
RecvInsert(r) ==
    /\ req[r].pc = "insert"
    /\ IF UniqueInsert(req[r].id)
       THEN /\ rows' = Append(rows, NewRow(Payload(req[r])))
            /\ req' = [req EXCEPT ![r].pc = "send", ![r].created = TRUE]
       ELSE /\ req' = [req EXCEPT ![r] = Duplicate(req[r])]
            /\ rows' = [rows EXCEPT ![RowOf(req[r].id)] =
                                       Found(RowOf(req[r].id), Payload(req[r]))]
    /\ UNCHANGED <<scope, asked, recvFired, wk, calls>>

\* webhook_event_received.send inside the view's try block
RecvSend(r) ==
    /\ req[r].pc = "send"
    /\ recvFired' = [recvFired EXCEPT ![req[r].id] = @ + 1]
    /\ \E out \in SendOutcomes : \E k \in FirstRaising(out) :
          req' = [req EXCEPT ![r].pc = "done", ![r].notified = Invoked(k),
                             ![r].resp = IF out = "ok" THEN "200 received" ELSE "500"]
    /\ UNCHANGED <<scope, asked, rows, wk, calls>>

\* ---------------------------------------------------------------- utils.py
\* limit=None and event_type=None, the defaults of the engine functions
NoLimit == -1
NoType == "None"

\* the arguments callers pass: the behaviours that interleave engine calls
\* keep to no limit or a positive one and to no event type
LimitsAsked ==
    IF scope = "sequential" THEN {NoLimit} \cup 0..MaxLimit ELSE {NoLimit} \cup 1..MaxLimit
TypesAsked ==
    IF scope = "sequential" THEN {NoType} \cup EventTypes ELSE {NoType}

IdleWorker ==
    [op |-> "none", pc |-> "idle", queue |-> <<>>, ev |-> NoEvent, ev0 |-> NoEvent,
     err |-> "", total |-> 0, processed |-> 0, failed |-> 0, handler |-> FALSE,
     ret |-> "none", hres |-> "none", firedP |-> 0, firedF |-> 0,
     notifiedP |-> {}, notifiedF |-> {},
     batch |-> <<>>, raisedOn |-> {}, ran |-> {}, limit |-> NoLimit,
     event_type |-> NoType, max_retries |-> 0, selected |-> {}]

Min(a, b) == IF a < b THEN a ELSE b

Range(q) == {q[i] : i \in 1..Len(q)}

PkSeq == [i \in 1..Len(rows) |-> i]

Instances(pks) == [i \in 1..Len(pks) |-> Instance(pks[i])]

\* `if limit:` is false for None and for 0
LimitApplies(limit) == limit \notin {NoLimit, 0}

\* `if event_type:` is false for None and for the empty string
TypeApplies(event_type) == event_type \notin {NoType, ""}

\* queryset[:limit] when limit is truthy
Slice(q, limit) == IF LimitApplies(limit) THEN SubSeq(q, 1, Min(limit, Len(q))) ELSE q

\* filter(status=pending)[.filter(event_type=...)].order_by('created_at')[:limit]
get_pending_events(limit, event_type) ==
    LET match(pk) == /\ rows[pk].status = STATUS_PENDING
                     /\ (TypeApplies(event_type) => rows[pk].event_type = event_type)
    IN  Slice(SelectSeq(PkSeq, match), limit)

\* the filter with retry_count__lte in place of retry_count__lt
RetryableOffByOne(row, max_retries) ==
    row.status = STATUS_FAILED /\ row.retry_count <= max_retries

\* filter(status=failed, retry_count__lt=max_retries)
Retryable(row, max_retries) ==
    row.status = STATUS_FAILED /\ row.retry_count < max_retries

RetryQuery(max_retries) ==
    SelectSeq(PkSeq, LAMBDA pk : Retryable(rows[pk], max_retries))

\* a call may start on a free worker; workers are interchangeable, so the
\* second one is taken only while the first is busy
Starting(w) ==
    /\ ~WorkerActive(w)
    /\ MayCall
    /\ w > 1 => WorkerActive(w - 1)

\* the loop header of a batch: the next instance of the evaluated queryset
NextIteration(rec) ==
    IF rec.queue = <<>>
    THEN [rec EXCEPT !.pc = "returned"]
    ELSE [rec EXCEPT !.ev = Head(rec.queue), !.ev0 = Head(rec.queue),
                     !.queue = Tail(rec.queue), !.pc = "claim",
                     !.total = IF rec.op = "pending" THEN @ + 1 ELSE @,
                     !.hres = "none", !.firedP = 0, !.firedF = 0,
                     !.notifiedP = {}, !.notifiedF = {}]

\* process_event returns `result` to its caller
ReturnTo(rec, result) ==
    IF rec.op = "event"
    THEN [rec EXCEPT !.pc = "returned", !.ret = result]
    ELSE NextIteration([rec EXCEPT !.ret = result,
                                   !.processed = IF result = "true" THEN @ + 1 ELSE @,
                                   !.failed = IF result = "false" THEN @ + 1 ELSE @])

\* a caller fetches one event and passes it to process_event
StartEvent(w) ==
    /\ Starting(w)
    /\ \E pk \in PKs, h \in BOOLEAN :
          wk' = [wk EXCEPT ![w] = [IdleWorker EXCEPT !.op = "event", !.pc = "claim",
                                      !.ev = Instance(pk), !.ev0 = Instance(pk),
                                      !.handler = h]]
    /\ calls' = calls + 1
    /\ UNCHANGED <<scope, asked, rows, req, recvFired>>

\* process_pending_events: the queryset is evaluated by the for loop
StartPending(w) ==
    /\ Starting(w)
    /\ \E limit \in LimitsAsked, event_type \in TypesAsked, h \in BOOLEAN :
          LET q == get_pending_events(limit, event_type)
          IN  wk' = [wk EXCEPT ![w] =
                       NextIteration([IdleWorker EXCEPT !.op = "pending", !.queue = Instances(q),
                                         !.batch = q, !.limit = limit,
                                         !.event_type = event_type, !.handler = h])]
    /\ calls' = calls + 1
    /\ UNCHANGED <<scope, asked, rows, req, recvFired>>

\* retry_failed_events up to queryset.update(status=pending); update() on a
\* sliced queryset raises TypeError
StartRetry(w) ==
    /\ Starting(w)
    /\ \E limit \in LimitsAsked, max_retries \in 1..MaxRetriesArg :
          /\ asked' = asked \cup {max_retries}
          /\ LET rec == [IdleWorker EXCEPT !.op = "retry", !.limit = limit,
                                           !.max_retries = max_retries]
             IN  IF LimitApplies(limit)
                 THEN /\ wk' = [wk EXCEPT ![w] =
                                  [rec EXCEPT !.pc = "raised",
                                              !.selected = Range(Slice(RetryQuery(max_retries),
                                                                       limit))]]
                      /\ UNCHANGED rows
                 ELSE /\ rows' = [pk \in PKs |->
                                    IF Retryable(rows[pk], max_retries)
                                    THEN [rows[pk] EXCEPT !.status = STATUS_PENDING]
                                    ELSE rows[pk]]
                      /\ wk' = [wk EXCEPT ![w] =
                                  [rec EXCEPT !.pc = "rt_count",
                                              !.selected = {pk \in PKs :
                                                   Retryable(rows[pk], max_retries)}]]
    /\ calls' = calls + 1
    /\ UNCHANGED <<scope, req, recvFired>>

\* 'total': queryset.count() runs the filter again
RetryCount(w) ==
    /\ wk[w].pc = "rt_count"
    /\ MayStep
    /\ wk' = [wk EXCEPT ![w].total = Len(RetryQuery(wk[w].max_retries)),
                        ![w].pc = "rt_fetch"]
    /\ UNCHANGED <<scope, asked, rows, req, recvFired, calls>>

\* for event in queryset: the filter runs a third time
RetryFetch(w) ==
    /\ wk[w].pc = "rt_fetch"
    /\ MayStep
    /\ LET q == RetryQuery(wk[w].max_retries)
       IN  wk' = [wk EXCEPT ![w] =
                    NextIteration([wk[w] EXCEPT !.queue = Instances(q), !.batch = q])]
    /\ UNCHANGED <<scope, asked, rows, req, recvFired, calls>>

\* a status check that lets Failed and Processing instances through
SkippedIfProcessed(ev) == ev.status = STATUS_PROCESSED

\* if event.status != STATUS_PENDING: the event is skipped
Skipped(ev) == ev.status # STATUS_PENDING

\* process_event: the status check on the instance, then mark_processing
Claim(w) ==
    /\ wk[w].pc = "claim"
    /\ MayStep
    /\ IF Skipped(wk[w].ev)
       THEN /\ wk' = [wk EXCEPT ![w] = ReturnTo(wk[w], "false")]
            /\ UNCHANGED rows
       ELSE LET ev == mark_processing(wk[w].ev)
            IN  /\ rows' = SaveProcessing(ev)
                /\ wk' = [wk EXCEPT ![w].ev = ev, ![w].pc = "handler"]
    /\ UNCHANGED <<scope, asked, req, recvFired, calls>>

\* handler(event), or nothing when no handler was given
Handler(w) ==
    /\ wk[w].pc = "handler"
    /\ MayStep
    /\ \/ wk' = [wk EXCEPT ![w].pc = "mark_processed", ![w].hres = "ok",
                           ![w].ran = @ \cup {wk[w].ev.pk}]
       \/ /\ wk[w].handler
          /\ \E msg \in HandlerErrors :
                wk' = [wk EXCEPT ![w].pc = "mark_failed", ![w].hres = "raise",
                                 ![w].err = msg,
                                 ![w].ran = @ \cup {wk[w].ev.pk},
                                 ![w].raisedOn = @ \cup {wk[w].ev.pk}]
    /\ UNCHANGED <<scope, asked, rows, req, recvFired, calls>>

MarkProcessed(w) ==
    /\ wk[w].pc = "mark_processed"
    /\ MayStep
    /\ LET ev == mark_processed(wk[w].ev)
       IN  /\ rows' = SaveProcessed(ev)
           /\ wk' = [wk EXCEPT ![w].ev = ev, ![w].pc = "send_processed"]
    /\ UNCHANGED <<scope, asked, req, recvFired, calls>>

\* webhook_event_processed.send, inside the try block
SendProcessed(w) ==
    /\ wk[w].pc = "send_processed"
    /\ MayStep
    /\ \E out \in SendOutcomes : \E k \in FirstRaising(out) :
          LET rec == [wk[w] EXCEPT !.firedP = @ + 1, !.notifiedP = Invoked(k)]
          IN  IF out = "ok"
              THEN wk' = [wk EXCEPT ![w] = ReturnTo(rec, "true")]
              ELSE wk' = [wk EXCEPT ![w] = [rec EXCEPT !.pc = "mark_failed",
                                                       !.err = ListenerError]]
    /\ UNCHANGED <<scope, asked, rows, req, recvFired, calls>>

\* except Exception as e: mark_failed(str(e))
MarkFailed(w) ==
    /\ wk[w].pc = "mark_failed"
    /\ MayStep
    /\ LET ev == mark_failed(wk[w].ev, wk[w].err)
       IN  /\ rows' = SaveFailed(ev)
           /\ wk' = [wk EXCEPT ![w].ev = ev, ![w].pc = "send_failed"]
    /\ UNCHANGED <<scope, asked, req, recvFired, calls>>

\* webhook_event_failed.send, inside the except block: an exception leaves
\* process_event and the batch that called it
SendFailed(w) ==
    /\ wk[w].pc = "send_failed"
    /\ MayStep
    /\ \E out \in SendOutcomes : \E k \in FirstRaising(out) :
          LET rec == [wk[w] EXCEPT !.firedF = @ + 1, !.notifiedF = Invoked(k)]
          IN  IF out = "ok"
              THEN wk' = [wk EXCEPT ![w] = ReturnTo(rec, "false")]
              ELSE wk' = [wk EXCEPT ![w] = [rec EXCEPT !.pc = "raised"]]
    /\ UNCHANGED <<scope, asked, rows, req, recvFired, calls>>

\* ---------------------------------------------------------------- behaviours
\* an empty table, no request and no engine call under way
InitIn(s) ==
    /\ rows = <<>>
    /\ req = [r \in Requests |-> IdleRequest]
    /\ recvFired = [id \in EventIds |-> 0]
    /\ wk = [w \in Workers |-> IdleWorker]
    /\ calls = 0
    /\ asked = {}
    /\ scope = s

Init == InitIn("engine")
InitSeq == InitIn("sequential")
InitStale == InitIn("stale")
InitRecv == InitIn("receiver")
InitPayload == InitIn("payload")

Next ==
    \/ \E r \in Requests : RecvStart(r)
    \/ \E r \in Requests : RecvInsert(r)
    \/ \E r \in Requests : RecvSend(r)
    \/ \E w \in Workers : StartEvent(w)
    \/ \E w \in Workers : StartPending(w)
    \/ \E w \in Workers : StartRetry(w)
    \/ \E w \in Workers : RetryCount(w)
    \/ \E w \in Workers : RetryFetch(w)
    \/ \E w \in Workers : Claim(w)
    \/ \E w \in Workers : Handler(w)
    \/ \E w \in Workers : MarkProcessed(w)
    \/ \E w \in Workers : SendProcessed(w)
    \/ \E w \in Workers : MarkFailed(w)
    \/ \E w \in Workers : SendFailed(w)

\* engine invocations interleaving with each other and with receipts
Spec == Init /\ [][Next]_vars

\* one call at a time
SpecSeq == InitSeq /\ [][Next]_vars

\* engine invocations interleaving on a single stored event
SpecStale == InitStale /\ [][Next]_vars

\* receipts, process_pending_events and retry_failed_events: the engine is
\* entered through its two batch functions only
NextBatches ==
    \/ \E r \in Requests : RecvStart(r)
    \/ \E r \in Requests : RecvInsert(r)
    \/ \E r \in Requests : RecvSend(r)
    \/ \E w \in Workers : StartPending(w)
    \/ \E w \in Workers : StartRetry(w)
    \/ \E w \in Workers : RetryCount(w)
    \/ \E w \in Workers : RetryFetch(w)
    \/ \E w \in Workers : Claim(w)
    \/ \E w \in Workers : Handler(w)
    \/ \E w \in Workers : MarkProcessed(w)
    \/ \E w \in Workers : SendProcessed(w)
    \/ \E w \in Workers : MarkFailed(w)
    \/ \E w \in Workers : SendFailed(w)

\* batches interleaving on a single stored event
SpecBatches == InitStale /\ [][NextBatches]_vars

\* the receiver alone
NextRecv ==
    \/ \E r \in Requests : RecvStart(r)
    \/ \E r \in Requests : RecvInsert(r)
    \/ \E r \in Requests : RecvSend(r)

SpecRecv == InitRecv /\ [][NextRecv]_vars

\* the receiver alone, one request at a time, over every kind of body
SpecPayload == InitPayload /\ [][NextRecv]_vars

\* ---------------------------------------------------------------- properties
Finished(w) == wk[w].pc \in {"returned", "raised"}

RowsOf(event_id) == {pk \in PKs : rows[pk].event_id = event_id}

\* at most one row per event_id
RowsUnique == \A id \in EventIds : Cardinality(RowsOf(id)) <= 1

\* the 'received' hook has fired once for every stored event_id whose
\* request is past the send, and never for an id that is not stored
ReceivedOnce ==
    \A id \in EventIds :
       \/ recvFired[id] = Cardinality(RowsOf(id))
       \/ /\ recvFired[id] = 0
          /\ \E r \in Requests : req[r].pc = "send" /\ req[r].id = id

\* C1: under any interleaving of receipts there is at most one row per
\* event_id, the 'received' hook fires exactly once per event_id, and once
\* the receipts of an id have answered, exactly one of them answered
\* 200 'received' and every other one 200 'duplicate'.
C1_IdempotentReceipt ==
    /\ RowsUnique
    /\ ReceivedOnce
    /\ \A id \in EventIds :
          LET done == {r \in Requests : req[r].id = id /\ req[r].pc = "done"}
              busy == {r \in Requests : req[r].id = id /\ RequestActive(r)}
          IN  (busy = {} /\ done # {}) =>
                 /\ Cardinality({r \in done : req[r].resp = "200 received"}) = 1
                 /\ \A r \in done : req[r].resp \in {"200 received", "200 duplicate"}

\* C2: of two process_event calls on the same event, each holding an
\* instance read while the row was Pending, exactly one runs the handler
\* and the other is a skipped no-op returning False.
C2_ClaimExclusive ==
    \A v, w \in Workers :
       (/\ v # w
        /\ wk[v].op = "event" /\ wk[w].op = "event"
        /\ Finished(v) /\ Finished(w)
        /\ wk[v].ev0.pk = wk[w].ev0.pk
        /\ wk[v].ev0.status = STATUS_PENDING /\ wk[w].ev0.status = STATUS_PENDING)
       => \/ wk[v].ran # {} /\ wk[w].ran = {} /\ wk[w].ret = "false"
          \/ wk[w].ran # {} /\ wk[v].ran = {} /\ wk[v].ret = "false"

AllowedTransitions ==
    {<<STATUS_PENDING, STATUS_PROCESSING>>, <<STATUS_PROCESSING, STATUS_PROCESSED>>,
     <<STATUS_PROCESSING, STATUS_FAILED>>, <<STATUS_FAILED, STATUS_PENDING>>}

\* C3: receiver and engine steps change a stored status only along
\* Pending -> Processing, Processing -> Processed, Processing -> Failed and
\* Failed -> Pending.
C3_StatusTransitions ==
    [][\A pk \in PKs :
          rows'[pk].status # rows[pk].status =>
             <<rows[pk].status, rows'[pk].status>> \in AllowedTransitions]_vars

\* C4: a process_pending_events call over n Pending events, the handler
\* raising on the subset F, returns with every event outside F Processed,
\* every event in F Failed, and stats total = n, processed = n - |F|,
\* failed = |F|.
C4_BatchIsolation ==
    \A w \in Workers :
       (wk[w].op = "pending" /\ Finished(w)) =>
          /\ wk[w].pc = "returned"
          /\ \A pk \in Range(wk[w].batch) :
                rows[pk].status = IF pk \in wk[w].raisedOn THEN STATUS_FAILED
                                  ELSE STATUS_PROCESSED
          /\ wk[w].total = Len(wk[w].batch)
          /\ wk[w].processed = Len(wk[w].batch) - Cardinality(wk[w].raisedOn)
          /\ wk[w].failed = Cardinality(wk[w].raisedOn)

\* C5: retry_failed_events, run alone, returns with none of the events it
\* selected still Pending, each of them Processed or Failed, and stats.total
\* equal to the number of events selected, whatever the limit.
C5_RetryProcessesSelected ==
    \A w \in Workers :
       (wk[w].op = "retry" /\ Finished(w) /\ wk[w].selected # {}) =>
          /\ wk[w].pc = "returned"
          /\ \A pk \in wk[w].selected :
                rows[pk].status \in {STATUS_PROCESSED, STATUS_FAILED}
          /\ wk[w].total = Cardinality(wk[w].selected)

RetryStep(w) == wk'[w] # wk[w] /\ wk'[w].op = "retry"

\* C6: a step of retry_failed_events(max_retries = m) changes a row only by
\* setting its status to Pending, and only if the row was Failed with
\* retry_count < m at that moment; Failed rows with retry_count >= m and
\* rows in any other status are left as they are.  No other engine or
\* receiver step puts a row back to Pending.
C6_RetryBound ==
    [][/\ \A w \in Workers :
             RetryStep(w) =>
                \A pk \in PKs :
                   rows'[pk] # rows[pk] =>
                      /\ rows[pk].status = STATUS_FAILED
                      /\ rows[pk].retry_count < wk'[w].max_retries
                      /\ rows'[pk] = [rows[pk] EXCEPT !.status = STATUS_PENDING]
       /\ \A pk \in PKs :
             (rows[pk].status # STATUS_PENDING /\ rows'[pk].status = STATUS_PENDING) =>
                \E w \in Workers : RetryStep(w)]_vars

\* C6 witness: a retry call has just re-queued a Failed event next to a row
\* in another status that it left alone.
C6_Witness ==
    \E w \in Workers :
       /\ wk[w].op = "retry" /\ wk[w].pc = "rt_count"
       /\ \E pk \in wk[w].selected :
             rows[pk].status = STATUS_PENDING /\ rows[pk].retry_count < wk[w].max_retries
       /\ \E pk \in PKs \ wk[w].selected : rows[pk].status = STATUS_PROCESSED

\* a finished process_event(event, handler) call on a Pending event
EventCall(w, hres) ==
    /\ wk[w].op = "event" /\ Finished(w)
    /\ wk[w].ev0.status = STATUS_PENDING
    /\ wk[w].hres = hres

\* C7: process_event on a Pending event whose handler raises ends with the
\* event Failed, a non-empty error_message (the error's description),
\* retry_count one higher, the 'failed' hook fired once, and returns False.
C7_HandlerRaises ==
    \A w \in Workers :
       EventCall(w, "raise") =>
          LET pk == wk[w].ev0.pk
          IN  /\ wk[w].pc = "returned" /\ wk[w].ret = "false"
              /\ rows[pk].status = STATUS_FAILED
              /\ rows[pk].error_message = wk[w].err
              /\ rows[pk].error_message # ""
              /\ rows[pk].retry_count = wk[w].ev0.retry_count + 1
              /\ wk[w].firedF = 1

\* C8: process_event on a Pending event whose handler returns (or with no
\* handler) ends with the event Processed and processed_at set, the
\* 'processed' hook fired once, the 'failed' hook not fired, and returns True.
C8_HandlerReturns ==
    \A w \in Workers :
       EventCall(w, "ok") =>
          LET pk == wk[w].ev0.pk
          IN  /\ wk[w].pc = "returned" /\ wk[w].ret = "true"
              /\ rows[pk].status = STATUS_PROCESSED
              /\ rows[pk].processed_at # NULL
              /\ wk[w].firedP = 1
              /\ wk[w].firedF = 0

\* C9: a stored retry_count never decreases, and changes only by +1 in a
\* step that moves the row into Failed, under every interleaving of engine
\* invocations.
C9_RetryCountMonotonic ==
    [][\A pk \in PKs :
          \/ rows'[pk].retry_count = rows[pk].retry_count
          \/ /\ rows'[pk].retry_count = rows[pk].retry_count + 1
             /\ rows'[pk].status = STATUS_FAILED
             /\ rows[pk].status # STATUS_FAILED]_vars

\* C10: in every state reached through receiver and engine steps,
\* processed_at is set exactly on the rows whose status is Processed.
C10_ProcessedAtIffProcessed ==
    \A pk \in PKs : rows[pk].processed_at # NULL <=> rows[pk].status = STATUS_PROCESSED

\* C11: a raising 'processed' or 'failed' listener does not change the
\* recorded outcome of process_event: after a handler that returned, the
\* event is Processed with retry_count and error_message as they were and
\* the call returns True; after a handler that raised, the call returns
\* False.
C11_ListenerIsolated ==
    \A w \in Workers :
       /\ EventCall(w, "ok") =>
             LET pk == wk[w].ev0.pk
             IN  /\ rows[pk].status = STATUS_PROCESSED
                 /\ rows[pk].retry_count = wk[w].ev0.retry_count
                 /\ rows[pk].error_message = wk[w].ev0.error_message
                 /\ wk[w].pc = "returned" /\ wk[w].ret = "true"
       /\ EventCall(w, "raise") =>
             wk[w].pc = "returned" /\ wk[w].ret = "false"

\* C12: on each firing of each of the three signals every registered
\* listener is invoked, in registration order, also when an earlier
\* listener raises.
C12_EveryListenerInvoked ==
    /\ \A r \in Requests :
          (req[r].created /\ req[r].pc = "done") => req[r].notified = Listeners
    /\ \A w \in Workers :
          /\ wk[w].firedP > 0 => wk[w].notifiedP = Listeners
          /\ wk[w].firedF > 0 => wk[w].notifiedF = Listeners

\* C13: a request that stored a new row answers 200 'received' with the
\* event_id, also when a 'received' listener raises; it never answers with
\* an error status.
C13_StoredAnswersReceived ==
    \A r \in Requests :
       (req[r].created /\ req[r].pc = "done") =>
          /\ req[r].resp = "200 received"
          /\ Exists(req[r].id)

\* C14: process_event never lets an error out: whatever the handler and
\* the listeners do, it returns a boolean (False when the handler raised),
\* so no engine call ends with an exception raised while processing an
\* event.
C14_NoErrorPropagates ==
    \A w \in Workers :
       /\ wk[w].pc = "raised" => wk[w].ev = NoEvent
       /\ (wk[w].op = "event" /\ Finished(w)) =>
             /\ wk[w].ret \in {"true", "false"}
             /\ wk[w].hres = "raise" => wk[w].ret = "false"

\* C15: a receipt whose event_id is already stored leaves the table as it
\* is: no field of the existing row changes (event_type, timestamp, email,
\* message_id, payload, status, retry_count, error_message, processed_at),
\* whatever the new body carries and whatever status the row has reached.
C15_DuplicateLeavesRow ==
    [][\A r \in Requests :
          (/\ req'[r] # req[r]
           /\ req'[r].id # 0
           /\ RowsOf(req'[r].id) # {}) => rows' = rows]_vars

\* C15 witness: a receipt answered 'duplicate' found its row in Processing
\* and carried another event type than the stored one; the row is Failed by
\* now with the type it was stored with.
C15_Witness ==
    \E r \in Requests :
       /\ req[r].resp = "200 duplicate"
       /\ req[r].seen = STATUS_PROCESSING
       /\ LET row == rows[RowOf(req[r].id)]
          IN  /\ row.event_type # req[r].type
              /\ row.payload # Payload(req[r])
              /\ row.status = STATUS_FAILED

\* C16: a request whose body is not parseable JSON is answered 400 'Invalid
\* JSON payload', one whose parsed body has no (or an empty) top-level id
\* 400 'Missing event ID'; neither creates or modifies a row or fires a hook.
C16_BadRequestRejected ==
    [][\A r \in Requests :
          (/\ req[r].pc = "idle" /\ req'[r].pc # "idle"
           /\ req'[r].body # "object" \/ req'[r].id = 0) =>
             /\ req'[r].pc = "done"
             /\ req'[r].resp = IF req'[r].body \in {"undecodable", "malformed"}
                               THEN "400 invalid json" ELSE "400 missing id"
             /\ rows' = rows
             /\ recvFired' = recvFired]_vars

\* C17: a request with an object body and an id is never turned away for
\* its created_at / timestamp value: whatever the value, the request gets
\* to get_or_create (it stores the row, or finds it stored) and, when the
\* value is absent or unparseable, the stored timestamp is the receipt time.
C17_TimestampNeverRejects ==
    \A r \in Requests :
       (req[r].pc = "done" /\ req[r].body = "object" /\ req[r].id # 0) =>
          /\ req[r].created \/ req[r].resp = "200 duplicate"
          /\ (req[r].created /\ req[r].ts \in {"absent", "bad_iso", "junk"}) =>
                rows[RowOf(req[r].id)].timestamp = NOW

\* a process_event call between its mark_processing and its mark_processed
\* or mark_failed
Holding(w, pk) ==
    /\ wk[w].ev.pk = pk
    /\ wk[w].pc \in {"handler", "mark_processed", "mark_failed"}

\* C18: a process_event call that moved an event into Processing moves it
\* out, to Processed or Failed, before it returns or raises, whatever the
\* handler and the listeners do: a row is in Processing only while a call
\* that put it there has not yet reached the end of its handling.
C18_ProcessingIsHeld ==
    \A pk \in PKs :
       rows[pk].status = STATUS_PROCESSING => \E w \in Workers : Holding(w, pk)

\* C18 witness: a call whose 'processed' listener and then 'failed'
\* listener raised has ended, and the event it had put in Processing is
\* Failed.
C18_Witness ==
    \E w \in Workers :
       /\ wk[w].pc = "raised"
       /\ wk[w].firedP = 1 /\ wk[w].firedF = 1
       /\ wk[w].ev.pk \in wk[w].ran
       /\ rows[wk[w].ev.pk].status = STATUS_FAILED

\* C19: process_event on an instance whose status is not Pending is a
\* no-op: it returns False, the handler is not invoked, no hook fires and
\* no stored row changes.
C19_NotPendingIsNoOp ==
    [][\A w \in Workers :
          (/\ wk[w].pc = "claim" /\ wk'[w] # wk[w]
           /\ wk[w].ev.status # STATUS_PENDING) =>
             /\ rows' = rows
             /\ wk'[w].ret = "false"
             /\ wk'[w].pc \in {"returned", "claim"}
             /\ wk'[w].ran = wk[w].ran
             /\ wk'[w].firedP = 0 /\ wk'[w].firedF = 0
             /\ wk'[w].notifiedP = {} /\ wk'[w].notifiedF = {}
             /\ recvFired' = recvFired]_vars

\* C19 witness: process_event was called on an instance read while another
\* call had the event in Processing, and has returned False without
\* running the handler; the other call went on to mark the event Processed.
C19_Witness ==
    \E w \in Workers :
       /\ wk[w].op = "event" /\ wk[w].pc = "returned"
       /\ wk[w].ev0.status = STATUS_PROCESSING
       /\ wk[w].ret = "false" /\ wk[w].ran = {}
       /\ rows[wk[w].ev0.pk].status = STATUS_PROCESSED

\* a step of process_pending_events in which the handler is invoked
HandlerStep(w) ==
    /\ wk[w].op = "pending" /\ wk[w].handler
    /\ wk[w].pc = "handler" /\ wk'[w].pc # "handler"

\* C20: within one process_pending_events(limit, event_type) call the
\* handler is invoked only on events that were Pending, of the given
\* event_type when one is given, oldest first, and on at most `limit`
\* events when a limit is given.
C20_BatchSelection ==
    [][\A w \in Workers :
          HandlerStep(w) =>
             LET ev == wk[w].ev0
             IN  /\ ev.status = STATUS_PENDING
                 /\ wk[w].event_type # NoType => ev.event_type = wk[w].event_type
                 /\ \A pk \in wk[w].ran : pk < ev.pk
                 /\ wk[w].limit # NoLimit => Cardinality(wk'[w].ran) <= wk[w].limit]_vars

\* the fields of a row that the receiver sets at creation
Received(row) ==
    [event_id |-> row.event_id, event_type |-> row.event_type,
     timestamp |-> row.timestamp, email |-> row.email,
     message_id |-> row.message_id, payload |-> row.payload]

\* C21: no step deletes a row; an engine step (process_event, a batch, a
\* retry) neither creates a row nor changes the event_id, event_type,
\* timestamp, email, message_id, payload or position in created_at order of
\* any row, also when it writes from a stale instance; a row is created
\* only by a request that did not find its event_id stored.
C21_EngineFrame ==
    [][/\ Len(rows') >= Len(rows)
       /\ wk' # wk =>
             /\ Len(rows') = Len(rows)
             /\ \A pk \in PKs : Received(rows'[pk]) = Received(rows[pk])
       /\ Len(rows') > Len(rows) =>
             /\ Len(rows') = Len(rows) + 1
             /\ \A pk \in PKs : rows'[pk] = rows[pk]
             /\ \E r \in Requests :
                   /\ req[r].pc = "insert" /\ req'[r].created
                   /\ RowsOf(req[r].id) = {}
                   /\ Received(rows'[Len(rows')]) = Received(NewRow(Payload(req[r])))]_vars

\* C21 witness: two calls have handled the same event, the later one from
\* an instance read before the first one wrote; the event is Processed and
\* a second row of another type is stored, both as the receiver created
\* them.
C21_Witness ==
    \E v, w \in Workers :
       /\ v # w /\ Finished(v) /\ Finished(w)
       /\ wk[v].ran # {} /\ wk[v].ran = wk[w].ran
       /\ Len(rows) = 2
       /\ rows[1].event_type # rows[2].event_type
       /\ \A pk \in PKs : Received(rows[pk]) = Received(NewRow(rows[pk].payload))
       /\ \E pk \in wk[v].ran : rows[pk].status = STATUS_PROCESSED

\* process_event takes the event of its instance into Processing
ClaimStep(w) == wk[w].pc = "claim" /\ wk'[w].pc = "handler"

\* C22: while every retry_failed_events call so far was made with the same
\* max_retries = m, every stored retry_count is at most m, and the engine
\* does not take into processing an event whose retry_count has reached m.
C22_RetryCountBounded ==
    [][\A m \in 1..MaxRetriesArg :
          asked' = {m} =>
             /\ \A pk \in 1..Len(rows') : rows'[pk].retry_count <= m
             /\ \A w \in Workers :
                   ClaimStep(w) => rows[wk[w].ev.pk].retry_count < m]_vars

\* C23: a step that moves a row into Processed (mark_processed) or from
\* Failed to Pending (the retry reset) leaves the row's error_message and
\* retry_count as they were.
C23_SuccessKeepsFailureRecord ==
    [][\A pk \in PKs :
          (\/ rows'[pk].status = STATUS_PROCESSED /\ rows[pk].status # STATUS_PROCESSED
           \/ rows'[pk].status = STATUS_PENDING /\ rows[pk].status = STATUS_FAILED) =>
             /\ rows'[pk].error_message = rows[pk].error_message
             /\ rows'[pk].retry_count = rows[pk].retry_count]_vars

\* C23 witness: an event that failed was re-queued by a retry call, fetched
\* as Pending with retry_count 1 by a later batch and handled with success:
\* it is Processed and still carries the failure's message and count.
C23_Witness ==
    \E w \in Workers :
       /\ wk[w].op = "pending" /\ wk[w].pc = "returned"
       /\ wk[w].ev0.status = STATUS_PENDING /\ wk[w].ev0.retry_count = 1
       /\ wk[w].ret = "true"
       /\ asked # {}
       /\ LET row == rows[wk[w].ev0.pk]
          IN  /\ row.status = STATUS_PROCESSED
              /\ row.retry_count = 1
              /\ row.error_message = "handler error"

====
